---- MODULE Spec2Model ----
(***************************************************************************)
(* A model of registry/registry.go: the etcd-backed service registry       *)
(* (EtcdRegistry) with its keepalive tasks, its watch subscription and the *)
(* gRPC resolver built on it, together with the part of the etcd store the *)
(* registry talks to (keys with leases, revisions, lease expiry, the watch *)
(* event stream).                                                          *)
(*                                                                         *)
(* Strings are sequences of tokens; "/" is a token of its own, so that     *)
(* fmt.Sprintf's concatenation and etcd's prefix match are computed, not   *)
(* assumed.                                                                *)
(***************************************************************************)
EXTENDS Integers, Sequences, FiniteSets, TLC

\* ---------------------------------------------------------------- bounds
\* Leases the store grants in one run. Every Register call that reaches the
\* store takes one, so this bounds the registrations, and with them the
\* changes of the store.
MaxLease == 3
\* Register calls that reach the store while the subscription of WatchSpec
\* is followed.
MaxWatched == 2
\* Register calls that reach the store, each starting one keepAlive, while
\* the goroutines of TaskSpec are followed to their end.
MaxKept == 1

\* ---------------------------------------------------------------- inputs
\* Service names callers pass: "a" and "a/b".
Names == {<<"a">>, <<"a", "/", "b">>}
\* Instance addresses callers pass (host:port strings, no "/").
Addresses == {<<"x">>, <<"y">>}
Versions == {"v1", "v2"}

LeaseIDs == 1..MaxLease

\* ---------------------------------------------------------------- codec
\* type ServiceInfo struct { Name, Address, Version }
ServiceInfo(n, a, v) == [Name |-> n, Address |-> a, Version |-> v]

\* json.Marshal(serviceInfo): the payload with its three named fields.
Marshal(info) ==
    <<"name", info.Name, "address", info.Address, "version", info.Version>>

\* A stored payload that is not JSON (written by some other client of the store).
Malformed == <<"junk">>

\* json.Unmarshal(kv.Value, &service) returns no error.
UnmarshalOk(p) ==
    /\ Len(p) = 6
    /\ p[1] = "name" /\ p[3] = "address" /\ p[5] = "version"

\* The record json.Unmarshal fills in.
Unmarshal(p) == ServiceInfo(p[2], p[4], p[6])

\* ---------------------------------------------------------------- keys
\* fmt.Sprintf("/services/%s/%s", serviceName, address)
Key(n, a) == <<"/", "services", "/">> \o n \o <<"/">> \o a

\* fmt.Sprintf("/services/%s/", serviceName)
Prefix(n) == <<"/", "services", "/">> \o n \o <<"/">>

\* clientv3.WithPrefix(): the key starts with the prefix.
HasPrefix(k, p) == Len(k) >= Len(p) /\ SubSeq(k, 1, Len(p)) = p

\* A key under /services/a/ that no Register call writes; a range read
\* returns it between the keys of "a/b" and those of "a".
JunkKey == Prefix(<<"a">>) \o <<"w">>

AllKeys == {Key(n, a) : n \in Names, a \in Addresses} \cup {JunkKey}

\* The byte a token starts with: etcd orders keys bytewise.
Byte(t) ==
    CASE t = "/" -> 47
      [] t = "a" -> 97
      [] t = "b" -> 98
      [] t = "services" -> 115
      [] t = "w" -> 119
      [] t = "x" -> 120
      [] t = "y" -> 121

KeyLess(s, t) ==
    \E i \in 1..(Len(s) + 1) :
        /\ i <= Len(t)
        /\ \A j \in 1..(i - 1) : s[j] = t[j]
        /\ (i = Len(s) + 1 \/ Byte(s[i]) < Byte(t[i]))

RECURSIVE SortKeys(_)
SortKeys(S) ==
    IF S = {} THEN <<>>
    ELSE LET m == CHOOSE k \in S : \A j \in S \ {k} : KeyLess(k, j)
         IN  <<m>> \o SortKeys(S \ {m})

\* The keys of the model in the order a range read returns them.
KeyOrder == SortKeys(AllKeys)


\* ---------------------------------------------------------------- Discover
\* r.kv.Get(r.ctx, prefix, clientv3.WithPrefix()): the keys present under the
\* prefix, ascending. A store is a function from its present keys to
\* [value, lease].
RangeGet(store, prefix) ==
    SelectSeq(KeyOrder, LAMBDA k : k \in DOMAIN store /\ HasPrefix(k, prefix))

\* The loop over resp.Kvs gone wrong: a break in place of the continue ends
\* the loop at the first entry that does not decode.
RECURSIVE ServicesBreak(_, _)
ServicesBreak(store, ks) ==
    IF ks = <<>> \/ ~UnmarshalOk(store[Head(ks)].value) THEN <<>>
    ELSE <<Unmarshal(store[Head(ks)].value)>> \o ServicesBreak(store, Tail(ks))

\* The loop over resp.Kvs: an entry that does not decode is skipped.
RECURSIVE Services(_, _)
Services(store, ks) ==
    IF ks = <<>> THEN <<>>
    ELSE (IF UnmarshalOk(store[Head(ks)].value)
             THEN <<Unmarshal(store[Head(ks)].value)>>
             ELSE <<>>)
         \o Services(store, Tail(ks))

\* Discover(serviceName) when the range read succeeds.
Discover(store, n) == Services(store, RangeGet(store, Prefix(n)))

\* The Build callback: the bare addresses of a snapshot, in order.
RECURSIVE Addrs(_)
Addrs(services) ==
    IF services = <<>> THEN <<>>
    ELSE <<Head(services).Address>> \o Addrs(Tail(services))

\* ---------------------------------------------------------------- state
VARIABLES
    kvs,        \* the store: present key -> [value, lease]
    lease,      \* lease id -> "free" (not granted) | "live" | "gone"
    ctxDone,    \* r.ctx is cancelled (Close was called)
    regPc,      \* the Register call in progress: "idle" | "granted"
    regArgs,    \* its arguments and the lease it was granted
    ka,         \* lease id -> its keepAlive goroutine:
                \* "none" | "spawned" | "loop" | "done"
    wpc,        \* the Watch call: "idle" | "spawned" | "read" | "incb" |
                \* "ok" | "err"
    wname,      \* its serviceName
    wkind,      \* "watch" (a caller's callback) | "build" (called by Build)
    wservices,  \* the services its Discover returned
    wcur,       \* no key under the prefix has changed since that Discover
    initArg,    \* the argument the Watch call gave the callback
    gpc,        \* the goroutine Watch starts: "none" | "spawned" | "select" |
                \* "event" | "got" | "incb" | "done"
    stream,     \* its watchChan: "none" | "open" | "closed" | "failed" (the
                \* stream could not be opened: the channel came closed)
    pending,    \* events the store has queued on the stream
    batch,      \* events of the received watchResp still to be handled
    bclosed,    \* that watchResp arrived after etcdResolver.Close
    gservices,  \* the services the goroutine's Discover returned
    skipped,    \* a Discover of the goroutine has failed, and the goroutine
                \* has not come back from a callback since
    gcur,       \* no key under the prefix has changed since that Discover
    last,       \* the argument of the latest callback invocation
    ninit,      \* callback invocations made by the Watch call itself
    early,      \* the goroutine invoked the callback before the Watch call did
    unseen,     \* a key under the prefix has changed after Watch returned
                \* nil, and no snapshot read since has reached the callback
    cc,         \* the addresses last given to cc.UpdateState
    rclosed,    \* etcdResolver.Close was called
    late        \* cc.UpdateState was called for a watchResp that arrived
                \* after etcdResolver.Close

storeVars == <<kvs, lease>>
regVars == <<regPc, regArgs, ka>>
callVars == <<wpc, wname, wkind, wservices, initArg>>
taskVars == <<gpc, stream, batch, bclosed, gservices, skipped>>
cbVars == <<last, ninit, early, cc, late>>
\* What a change of the store touches besides the store.
feedVars == <<pending, wcur, gcur, unseen>>
vars == <<storeVars, ctxDone, regVars, callVars, taskVars, feedVars, cbVars,
          rclosed>>

EmptyStore == [k \in {} |-> [value |-> <<>>, lease |-> 0]]
NoArgs == [name |-> <<>>, addr |-> <<>>, ver |-> "", id |-> 0]

Init ==
    /\ kvs = EmptyStore
    /\ lease = [l \in LeaseIDs |-> "free"]
    /\ ctxDone = FALSE
    /\ regPc = "idle"
    /\ regArgs = NoArgs
    /\ ka = [l \in LeaseIDs |-> "none"]
    /\ wpc = "idle"
    /\ wname = <<>>
    /\ wkind = "watch"
    /\ wservices = <<>>
    /\ wcur = FALSE
    /\ initArg = <<>>
    /\ gpc = "none"
    /\ stream = "none"
    /\ pending = 0
    /\ batch = 0
    /\ bclosed = FALSE
    /\ gservices = <<>>
    /\ skipped = FALSE
    /\ gcur = FALSE
    /\ last = <<>>
    /\ ninit = 0
    /\ early = FALSE
    /\ unseen = FALSE
    /\ cc = <<>>
    /\ rclosed = FALSE
    /\ late = FALSE

\* ---------------------------------------------------------------- the store
\* A request made with r.ctx can succeed: the context is not cancelled. Any
\* request can also fail (the store is unreachable, the request times out);
\* each caller below has its error branch.
StoreOk == ~ctxDone

\* The keys whose events the stream delivers, and which Discover reads.
Watched(k) == wname # <<>> /\ HasPrefix(k, Prefix(wname))

PutKV(store, k, val, id) ==
    [j \in DOMAIN store \cup {k} |->
        IF j = k THEN [value |-> val, lease |-> id] ELSE store[j]]

DeleteKV(store, ks) == [j \in DOMAIN store \ ks |-> store[j]]

Live(l) == lease[l] = "live"

\* The store applies a change of the keys ks, and queues one event per key
\* on an open stream that covers the key.
Commit(store, ks) ==
    LET seen == {k \in ks : Watched(k)}
    IN  /\ kvs' = store
        /\ pending' = IF stream = "open" THEN pending + Cardinality(seen)
                                         ELSE pending
        /\ wcur' = (wcur /\ seen = {})
        /\ gcur' = (gcur /\ seen = {})
        /\ unseen' = (unseen \/ (wpc = "ok" /\ seen # {}))

NoCommit == UNCHANGED <<kvs, feedVars>>

\* A lease goes unrenewed for its TTL (no keepAlive runs for it, or its
\* renewals do not arrive): the store drops it and deletes the keys attached
\* to it.
LeaseExpire(l) ==
    LET ks == {k \in DOMAIN kvs : kvs[k].lease = l}
    IN  /\ Live(l)
        /\ lease' = [lease EXCEPT ![l] = "gone"]
        /\ IF ks = {} THEN NoCommit ELSE Commit(DeleteKV(kvs, ks), ks)
        /\ UNCHANGED <<ctxDone, regVars, callVars, taskVars, cbVars, rclosed>>

\* Another client of the store writes a value that is not a ServiceInfo.
ForeignPut ==
    /\ JunkKey \notin DOMAIN kvs
    /\ Commit(PutKV(kvs, JunkKey, Malformed, 0), {JunkKey})
    /\ UNCHANGED <<lease, ctxDone, regVars, callVars, taskVars, cbVars,
                   rclosed>>

\* ---------------------------------------------------------------- Register
\* Register, lines 56-72: encode the record and ask for a lease. json.Marshal
\* of three strings returns no error.
RegisterGrantOk(n, a, v) ==
    /\ regPc = "idle"
    /\ StoreOk
    /\ \E l \in LeaseIDs :
          /\ lease[l] = "free"
          /\ \A j \in 1..(l - 1) : lease[j] # "free"
          /\ lease' = [lease EXCEPT ![l] = "live"]
          /\ regArgs' = [name |-> n, addr |-> a, ver |-> v, id |-> l]
    /\ regPc' = "granted"
    /\ NoCommit
    /\ UNCHANGED <<ctxDone, ka, callVars, taskVars, cbVars, rclosed>>

\* Register, lines 69-72, whatever its arguments: Grant fails and Register
\* returns its error.
RegisterGrantErr ==
    /\ regPc = "idle"
    /\ UNCHANGED vars

\* Register, lines 74-86: the key is written under the lease, keepAlive is
\* started and Register returns nil.
RegisterPutOk ==
    LET key == Key(regArgs.name, regArgs.addr)
        value == Marshal(ServiceInfo(regArgs.name, regArgs.addr, regArgs.ver))
    IN  /\ regPc = "granted"
        /\ StoreOk
        /\ Live(regArgs.id)
        /\ Commit(PutKV(kvs, key, value, regArgs.id), {key})
        /\ ka' = [ka EXCEPT ![regArgs.id] = "spawned"]
        /\ regPc' = "idle"
        /\ regArgs' = NoArgs
        /\ UNCHANGED <<lease, ctxDone, callVars, taskVars, cbVars, rclosed>>

\* Register, lines 77-80: Put fails (the request fails, or the lease is
\* gone already) and Register returns its error.
RegisterPutErr ==
    /\ regPc = "granted"
    /\ regPc' = "idle"
    /\ regArgs' = NoArgs
    /\ NoCommit
    /\ UNCHANGED <<lease, ctxDone, ka, callVars, taskVars, cbVars, rclosed>>

\* What no keepAlive step touches.
kaFrame == <<kvs, feedVars, ctxDone, regPc, regArgs, callVars, taskVars,
             cbVars, rclosed>>

\* keepAlive, lines 91-95: open the renewal stream.
KeepAliveStart(l) ==
    /\ ka[l] = "spawned"
    /\ ka' = [ka EXCEPT ![l] = IF ctxDone THEN "done" ELSE "loop"]
    /\ UNCHANGED <<lease, kaFrame>>

\* keepAlive, line 102 with resp # nil: the store has renewed the lease; the
\* loop goes on.
KeepAliveResp(l) ==
    /\ ka[l] = "loop"
    /\ StoreOk
    /\ Live(l)
    /\ UNCHANGED vars

\* keepAlive, lines 103-108 gone wrong: on resp = nil the loop writes the
\* instance back before it returns.
KeepAliveNilRegister(l) ==
    LET key == Key(<<"a">>, <<"x">>)
        value == Marshal(ServiceInfo(<<"a">>, <<"x">>, "v1"))
    IN  /\ ka[l] = "loop"
        /\ lease[l] = "gone" \/ ctxDone
        /\ ka' = [ka EXCEPT ![l] = "done"]
        /\ Commit(PutKV(kvs, key, value, 0), {key})
        /\ UNCHANGED <<lease, ctxDone, regPc, regArgs, callVars, taskVars,
                       cbVars, rclosed>>

\* keepAlive, lines 103-108: resp = nil, the renewal stream has ended (the
\* lease is gone, or the context is cancelled); the loop returns and writes
\* nothing.
KeepAliveNil(l) ==
    /\ ka[l] = "loop"
    /\ lease[l] = "gone" \/ ctxDone
    /\ ka' = [ka EXCEPT ![l] = "done"]
    /\ UNCHANGED <<lease, kaFrame>>

\* keepAlive, lines 100-101: <-r.ctx.Done().
KeepAliveDone(l) ==
    /\ ka[l] = "loop"
    /\ ctxDone
    /\ ka' = [ka EXCEPT ![l] = "done"]
    /\ UNCHANGED <<lease, kaFrame>>

\* ---------------------------------------------------------------- Unregister
\* Unregister, lines 114-118, when the delete request succeeds: the key is
\* deleted; deleting an absent key changes nothing and is no error.
Unregister(n, a) ==
    LET key == Key(n, a)
    IN  /\ StoreOk
        /\ IF key \in DOMAIN kvs
              THEN Commit(DeleteKV(kvs, {key}), {key})
              ELSE NoCommit
        /\ UNCHANGED <<lease, ctxDone, regVars, callVars, taskVars, cbVars,
                       rclosed>>

\* Unregister, whatever its arguments, when the delete request fails: the
\* error is returned.
UnregisterErr ==
    UNCHANGED vars

\* ---------------------------------------------------------------- Watch
\* callback(services), with services read while cur. Called by Build, the
\* callback is lines 187-193: it gives the addresses to cc.UpdateState.
Callback(services, cur) ==
    /\ last' = services
    /\ unseen' = (unseen /\ ~cur)
    /\ cc' = IF wkind = "build" THEN Addrs(services) ELSE cc

\* Watch, lines 141-161 (and Build, lines 180-187, which calls it): the
\* goroutine is started; it has not run yet.
Watch(n, kind) ==
    /\ wpc = "idle"
    /\ wpc' = "spawned"
    /\ wname' = n
    /\ wkind' = kind
    /\ gpc' = "spawned"
    /\ UNCHANGED <<storeVars, feedVars, ctxDone, regVars, wservices, initArg,
                   stream, batch, bclosed, gservices, skipped, cbVars,
                   rclosed>>

\* Watch, lines 164-167: the initial Discover; its error is returned.
WatchDiscover ==
    /\ wpc = "spawned"
    /\ \/ /\ StoreOk
          /\ wservices' = Discover(kvs, wname)
          /\ wcur' = TRUE
          /\ wpc' = "read"
       \/ /\ wpc' = "err"
          /\ UNCHANGED <<wservices, wcur>>
    /\ UNCHANGED <<storeVars, pending, gcur, unseen, ctxDone, regVars, wname,
                   wkind, initArg, taskVars, cbVars, rclosed>>

\* Watch, line 168 gone wrong: the callback is given an empty list instead
\* of the services read.
WatchCallbackEmpty ==
    /\ wpc = "read"
    /\ wpc' = "incb"
    /\ Callback(<<>>, wcur)
    /\ initArg' = <<>>
    /\ ninit' = ninit + 1
    /\ UNCHANGED <<storeVars, pending, wcur, gcur, ctxDone, regVars, wname,
                   wkind, wservices, taskVars, early, late, rclosed>>

\* Watch, line 168: the Watch call enters callback(services).
WatchCallback ==
    /\ wpc = "read"
    /\ wpc' = "incb"
    /\ Callback(wservices, wcur)
    /\ initArg' = wservices
    /\ ninit' = ninit + 1
    /\ UNCHANGED <<storeVars, pending, wcur, gcur, ctxDone, regVars, wname,
                   wkind, wservices, taskVars, early, late, rclosed>>

\* Watch, lines 168-170: the callback returns and Watch returns nil; its
\* locals are gone.
WatchReturn ==
    /\ wpc = "incb"
    /\ wpc' = "ok"
    /\ wservices' = <<>>
    /\ initArg' = <<>>
    /\ wcur' = FALSE
    /\ UNCHANGED <<storeVars, pending, gcur, unseen, ctxDone, regVars, wname,
                   wkind, taskVars, cbVars, rclosed>>

\* What no step of the goroutine touches.
taskFrame == <<storeVars, ctxDone, regVars, callVars, rclosed>>

\* The goroutine, line 145: r.client.Watch opens the stream, from the
\* store's revision at that moment. It returns no error: when the stream
\* cannot be opened (the context is cancelled, the store refuses or cannot be
\* reached) the channel it returns is closed.
WatcherOpen ==
    /\ gpc = "spawned"
    /\ gpc' = "select"
    /\ \/ StoreOk /\ stream' = "open"
       \/ stream' = "failed"
    /\ UNCHANGED <<taskFrame, feedVars, batch, bclosed, gservices, skipped,
                   cbVars>>

\* The goroutine, lines 148-149 gone wrong: a break in place of the return
\* leaves the select, not the loop.
WatcherDoneBreak ==
    /\ gpc = "select"
    /\ ctxDone
    /\ UNCHANGED vars

\* The goroutine, lines 148-149: <-r.ctx.Done().
WatcherDone ==
    /\ gpc = "select"
    /\ ctxDone
    /\ gpc' = "done"
    /\ UNCHANGED <<taskFrame, feedVars, stream, batch, bclosed, gservices,
                   skipped, cbVars>>

\* The goroutine, line 150: a watchResp arrives with some of the queued
\* events.
WatcherRecv ==
    /\ gpc = "select"
    /\ stream = "open"
    /\ \E k \in 1..pending :
          /\ batch' = k
          /\ pending' = pending - k
    /\ bclosed' = rclosed
    /\ gpc' = "event"
    /\ UNCHANGED <<taskFrame, wcur, gcur, unseen, stream, gservices, skipped,
                   cbVars>>

\* The goroutine, line 150 on a closed channel: the zero watchResp, which
\* holds no event; the loop selects again.
WatcherRecvClosed ==
    /\ gpc = "select"
    /\ stream \in {"closed", "failed"}
    /\ UNCHANGED vars

\* The event at hand is dealt with (its services are out of scope): on to
\* the next one, or back to select.
NextEvent ==
    /\ batch' = batch - 1
    /\ gpc' = IF batch = 1 THEN "select" ELSE "event"
    /\ gservices' = <<>>
    /\ gcur' = FALSE

\* The goroutine, lines 151-155 gone wrong: on the error of Discover the
\* goroutine returns.
WatcherDiscoverReturn ==
    /\ gpc = "event"
    /\ \/ /\ StoreOk
          /\ gservices' = Discover(kvs, wname)
          /\ gcur' = TRUE
          /\ gpc' = "got"
          /\ UNCHANGED <<batch, skipped>>
       \/ /\ gpc' = "done"
          /\ skipped' = TRUE
          /\ UNCHANGED <<batch, gservices, gcur>>
    /\ UNCHANGED <<storeVars, ctxDone, regVars, callVars, rclosed, pending,
                   wcur, unseen, stream, bclosed, cbVars>>

\* The goroutine, lines 151-155: for one event, Discover again; on its error
\* the event is passed over.
WatcherDiscover ==
    /\ gpc = "event"
    /\ \/ /\ StoreOk
          /\ gservices' = Discover(kvs, wname)
          /\ gcur' = TRUE
          /\ gpc' = "got"
          /\ UNCHANGED <<batch, skipped>>
       \/ /\ NextEvent
          /\ skipped' = TRUE
    /\ UNCHANGED <<taskFrame, pending, wcur, unseen, stream, bclosed, cbVars>>

\* The goroutine, line 156: it enters callback(services).
WatcherCallback ==
    /\ gpc = "got"
    /\ gpc' = "incb"
    /\ Callback(gservices, gcur)
    /\ early' = (early \/ ninit = 0)
    /\ late' = (late \/ (wkind = "build" /\ bclosed))
    /\ UNCHANGED <<taskFrame, pending, wcur, gcur, stream, batch, bclosed,
                   gservices, skipped, ninit>>

\* The goroutine, lines 156-158: the callback returns.
WatcherNext ==
    /\ gpc = "incb"
    /\ NextEvent
    /\ skipped' = FALSE
    /\ UNCHANGED <<taskFrame, pending, wcur, unseen, stream, bclosed, cbVars>>

\* The store ends the stream (the watch is cancelled on the server side):
\* the channel is closed and the queued events are not delivered.
StreamFail ==
    /\ stream = "open"
    /\ stream' = "closed"
    /\ pending' = 0
    /\ UNCHANGED <<taskFrame, wcur, gcur, unseen, gpc, batch, bclosed,
                   gservices, skipped, cbVars>>

\* ---------------------------------------------------------------- Close
\* Close, lines 174-177: r.cancel() and r.client.Close(); the open channels
\* of the client are closed.
Close ==
    /\ ~ctxDone
    /\ ctxDone' = TRUE
    /\ stream' = IF stream = "open" THEN "closed" ELSE stream
    /\ pending' = 0
    /\ UNCHANGED <<storeVars, wcur, gcur, unseen, regVars, callVars, gpc,
                   batch, bclosed, gservices, skipped, cbVars, rclosed>>

\* etcdResolver.Close, line 213: the body is empty.
ResolverClose ==
    /\ wkind = "build"
    /\ wpc = "ok"
    /\ ~rclosed
    /\ rclosed' = TRUE
    /\ UNCHANGED <<storeVars, feedVars, ctxDone, regVars, callVars, taskVars,
                   cbVars>>

\* etcdResolver.ResolveNow, line 210: the body is empty.
ResolveNow ==
    /\ wkind = "build"
    /\ wpc = "ok"
    /\ UNCHANGED vars

\* ---------------------------------------------------------------- Next
\* What the store does to the leases on its own.
Leases ==
    \E l \in LeaseIDs : LeaseExpire(l)

\* The keepAlive goroutines.
KeepAlives ==
    \/ \E l \in LeaseIDs : KeepAliveStart(l)
    \/ \E l \in LeaseIDs : KeepAliveResp(l)
    \/ \E l \in LeaseIDs : KeepAliveNil(l)
    \/ \E l \in LeaseIDs : KeepAliveDone(l)

\* Registration and discovery: callers register and unregister instances of
\* every name, address and version.
Next ==
    \/ Leases
    \/ KeepAlives
    \/ ForeignPut
    \/ \E n \in Names, a \in Addresses, v \in Versions : RegisterGrantOk(n, a, v)
    \/ RegisterGrantErr
    \/ RegisterPutOk
    \/ RegisterPutErr
    \/ \E n \in Names, a \in Addresses : Unregister(n, a)
    \/ UnregisterErr
    \/ Close

Spec == Init /\ [][Next]_vars

\* The goroutine that Watch starts.
Watcher ==
    \/ WatcherOpen
    \/ WatcherDone
    \/ WatcherRecv
    \/ WatcherRecvClosed
    \/ WatcherDiscover
    \/ WatcherCallback
    \/ WatcherNext

\* The leases granted so far.
Granted == Cardinality({l \in LeaseIDs : lease[l] # "free"})

\* One subscription (a Watch call, or a Build) to service "a" on a registry
\* whose callers register and unregister the instance "x" of that service,
\* and whose store another client writes to.
\* The keepAlive goroutines are left out: the loop writes nothing, and a
\* lease can expire whether or not one is running.
WatchNext ==
    \/ Leases
    \/ ForeignPut
    \/ Granted < MaxWatched /\ RegisterGrantOk(<<"a">>, <<"x">>, "v1")
    \/ RegisterGrantErr
    \/ RegisterPutOk
    \/ RegisterPutErr
    \/ Unregister(<<"a">>, <<"x">>)
    \/ UnregisterErr
    \/ \E kind \in {"watch", "build"} : Watch(<<"a">>, kind)
    \/ WatchDiscover
    \/ WatchCallback
    \/ WatchReturn
    \/ Watcher
    \/ StreamFail
    \/ Close
    \/ ResolverClose
    \/ ResolveNow

WatchSpec == Init /\ [][WatchNext]_vars

\* The goroutines of one registry and its Close: a Register call starts a
\* keepAlive, a Watch call starts the watching goroutine; the instance
\* registered can be unregistered.
TaskNext ==
    \/ Leases
    \/ Granted < MaxKept /\ RegisterGrantOk(<<"a">>, <<"x">>, "v1")
    \/ RegisterPutOk
    \/ RegisterPutErr
    \/ Unregister(<<"a">>, <<"x">>)
    \/ KeepAlives
    \/ Watch(<<"a">>, "watch")
    \/ WatchDiscover
    \/ WatchCallback
    \/ WatchReturn
    \/ Watcher
    \/ StreamFail
    \/ Close

\* The Go scheduler runs every goroutine that can take a step, a select whose
\* ctx.Done() case stays ready takes it in the end, and a callback returns.
TaskFairness ==
    /\ \A l \in LeaseIDs : WF_vars(KeepAliveStart(l))
    /\ \A l \in LeaseIDs : WF_vars(KeepAliveDone(l))
    /\ WF_vars(WatcherOpen)
    /\ WF_vars(WatcherDone)
    /\ WF_vars(WatcherDiscover)
    /\ WF_vars(WatcherCallback)
    /\ WF_vars(WatcherNext)

TaskSpec == Init /\ [][TaskNext]_vars /\ TaskFairness

\* ---------------------------------------------------------------- claims
\* The records of Discover(n) that carry address a.
WithAddress(store, n, a) ==
    SelectSeq(Discover(store, n), LAMBDA r : r.Address = a)

\* C1: for a Watch call that does not fail, the callback gets the initial
\* snapshot from the Watch call before the goroutine gives it any
\* event-triggered snapshot.
C1_InitialSnapshotFirst == (wpc # "err") => ~early

\* The subscription is at rest: Watch has returned nil, the registry is open,
\* the stream is open, no event is queued or being handled.
AtRest ==
    /\ wpc = "ok"
    /\ ~ctxDone
    /\ stream = "open"
    /\ gpc = "select"
    /\ pending = 0

\* C2: no change made under the prefix after Watch returned nil is missed:
\* once the subscription is at rest the callback has been given a snapshot
\* read after the latest such change.
C2_NoChangeMissed == AtRest => ~unseen

\* C3: a Watch call that returns nil has invoked the callback itself, once,
\* and the snapshot it passes is Discover(name) of the store as it stands
\* for as long as no key under the prefix has changed since the call read it.
C3_InitialSnapshot ==
    /\ wpc = "ok" => ninit = 1
    /\ wpc = "incb" => /\ ninit = 1
                       /\ wcur => initArg = Discover(kvs, wname)

\* The Watch call is inside the callback with a snapshot that holds a record
\* and is still the store's.
C3_Witness == wpc = "incb" /\ wcur /\ initArg # <<>>

\* C10: after etcdResolver.Close the subscription Build started is released:
\* no watchResp that arrives after it ends in an address update of the
\* connection state.
C10_CloseReleases == ~late

\* C4: a Register call that returns the error of Put leaves nothing behind:
\* no key written, no keepAlive started, and the lease it was granted is not
\* live.
C4_FailedRegisterLeavesNothing ==
    [][RegisterPutErr =>
         /\ kvs' = kvs
         /\ ka' = ka
         /\ lease'[regArgs.id] # "live"]_vars

\* C5: right after a successful Register(name, address, version),
\* Discover(name) holds exactly one record with that address, and it is the
\* record just registered.
C5_OneRecordPerAddress ==
    [][RegisterPutOk =>
         WithAddress(kvs', regArgs.name, regArgs.addr)
           = <<ServiceInfo(regArgs.name, regArgs.addr, regArgs.ver)>>]_vars

\* C6: whenever two distinct addresses are both registered under one name, in
\* whichever order they were, Discover(name) holds each exactly once.
C6_BothOnce ==
    \A n \in Names : \A a1, a2 \in Addresses :
        (a1 # a2 /\ Key(n, a1) \in DOMAIN kvs /\ Key(n, a2) \in DOMAIN kvs)
        => /\ Len(WithAddress(kvs, n, a1)) = 1
           /\ Len(WithAddress(kvs, n, a2)) = 1

\* C7: after an Unregister(name, address) that returns nil the key is absent,
\* Discover(name) holds no record with that address, and a second Unregister
\* would leave the store as it is.
C7_UnregisterRemoves ==
    [][\A n \in Names : \A a \in Addresses :
         Unregister(n, a) =>
           /\ Key(n, a) \notin DOMAIN kvs'
           /\ WithAddress(kvs', n, a) = <<>>
           /\ DeleteKV(kvs', {Key(n, a)}) = kvs']_vars

\* C8: Discover(name) returns only records registered under that name.
C8_OnlyOwnName ==
    \A n \in Names :
        \A i \in 1..Len(Discover(kvs, n)) : Discover(kvs, n)[i].Name = n

\* A keepAlive goroutine, or the watching goroutine, is running.
KeepAliveRuns(l) == ka[l] \in {"spawned", "loop"}
WatcherRuns == gpc \notin {"none", "done"}

\* C9: once Close has been called, every keepAlive goroutine and the watching
\* goroutine end.
C9_TasksEndAfterClose ==
    /\ \A l \in LeaseIDs : (ctxDone /\ KeepAliveRuns(l)) ~> (ka[l] = "done")
    /\ (ctxDone /\ WatcherRuns) ~> (gpc = "done")

\* Close has ended a keepAlive whose lease is still live, and the watching
\* goroutine.
C9_Witness ==
    /\ ctxDone
    /\ gpc = "done"
    /\ \E l \in LeaseIDs : ka[l] = "done" /\ Live(l)

\* C11: when the event stream of a Watch call could not be opened, the call
\* does not return nil and has not given the callback the initial snapshot.
C11_OpenFailureFailsWatch ==
    stream = "failed" => (wpc # "ok" /\ ninit = 0)

\* The keys under the prefix of n whose value decodes.
Decodable(store, n) ==
    {k \in DOMAIN store : HasPrefix(k, Prefix(n)) /\ UnmarshalOk(store[k].value)}

\* The list holds the records of the decodable entries under the prefix of
\* n, and nothing else.
ExactlyDecodable(services, store, n) ==
    /\ Len(services) = Cardinality(Decodable(store, n))
    /\ \A k \in Decodable(store, n) :
          \E i \in 1..Len(services) : services[i] = Unmarshal(store[k].value)

\* C12: whatever malformed value is stored under a prefix, a Discover whose
\* range read succeeds returns exactly the decodable entries under the
\* prefix, and so does every snapshot the Watch call or its goroutine has
\* read and gives the callback, for as long as no key under the prefix has
\* changed since.
C12_MalformedSkipped ==
    /\ \A n \in Names : ExactlyDecodable(Discover(kvs, n), kvs, n)
    /\ (wpc \in {"read", "incb"} /\ wcur)
          => ExactlyDecodable(wservices, kvs, wname)
    /\ (gpc \in {"got", "incb"} /\ gcur)
          => ExactlyDecodable(gservices, kvs, wname)

\* The goroutine is inside the callback with a snapshot that is still the
\* store's and holds the one decodable entry, read past a malformed one.
C12_Witness ==
    /\ gpc = "incb"
    /\ gcur
    /\ JunkKey \in DOMAIN kvs
    /\ gservices = <<ServiceInfo(<<"a">>, <<"x">>, "v1")>>
    /\ last = gservices

\* The keys attached to lease l.
Backs(l) == {k \in DOMAIN kvs : kvs[k].lease = l}

\* C13: the keepAlive a successful Register started stops once the key it
\* was started for has been unregistered: when the lease it renews is live
\* and backs no key any more, the goroutine ends.
C13_KeepAliveStopsOnUnregister ==
    \A l \in LeaseIDs :
        (KeepAliveRuns(l) /\ Live(l) /\ Backs(l) = {}) ~> ~KeepAliveRuns(l)

\* C14: every lease that Register was granted and a keepAlive is renewing
\* backs exactly one key.
C14_OneKeyPerLease ==
    \A l \in LeaseIDs :
        (ka[l] = "loop" /\ Live(l) /\ ~ctxDone) => Cardinality(Backs(l)) = 1

\* C15: a received watchResp causes one re-query and one callback however
\* many events it holds: when the callback made for it returns, the goroutine
\* is back at its select, not at a further event of the same watchResp.
C15_OneSnapshotPerBatch ==
    [][WatcherNext => gpc' = "select"]_vars

C17_FailedRequerySwallowed ==
    [][/\ (WatcherDiscover /\ gpc' # "got") =>
            /\ last' = last
            /\ cc' = cc
            /\ gpc' \in {"select", "event"}
            /\ stream' = stream
       /\ (skipped' /\ gpc' = "done") => ctxDone']_vars

\* After a Discover of the goroutine failed, the Discover for a later event
\* succeeded and the goroutine is inside the callback with its snapshot.
C17_Witness ==
    /\ skipped
    /\ gpc = "incb"
    /\ gcur
    /\ last = gservices

\* C18: once the subscription is at rest, with no change under the prefix
\* left unseen since Watch returned, the snapshot the callback was given last
\* is the store's membership: no snapshot read earlier was delivered after
\* one read later.
C18_LastSnapshotCurrent ==
    (AtRest /\ ~unseen) => last = Discover(kvs, wname)

\* C19: the Watch call and the goroutine are never inside the callback at
\* the same time.
C19_CallbacksNeverOverlap ==
    ~(wpc = "incb" /\ gpc = "incb")

\* C20: after a Watch call has returned an error, the goroutine it started
\* is not inside the callback.
C20_FailedWatchLeavesNothing ==
    wpc = "err" => gpc # "incb"

====
